---- MODULE Spec2Model ----
(***************************************************************************)
(* Model of asr_client.py: the remote adapter ASRClient and the local      *)
(* whisper.cpp adapter LocalASRClient.                                     *)
(*                                                                         *)
(* Text is a sequence of code points, a byte string a sequence of 0..255.  *)
(***************************************************************************)
EXTENDS Integers, Sequences, FiniteSets, TLC

VARIABLES
    \* sanitizer on its own
    sanPc, sanIn, sanOut, sanOut2,
    \* LocalASRClient: position of the call, the disk, the call's arguments,
    \* the external process and what the call gave back
    lpc, lOp, lAudioExists, lCli, lPath, lExtractFn, lExtractCalled,
    lSpawned, lOutcome, lReturncode, lStdout, lStderr,
    lRet, lRaised, lLog,
    \* ASRClient: position of the call, the disk, the call's arguments, the
    \* file handles it opened, the calls it made and what it gave back
    rpc, rOp, rDisk, rFiles, rResps, rExtract, rHandles, rCalls, rUnlinks,
    rRet, rRaised, rLog

sanVars == <<sanPc, sanIn, sanOut, sanOut2>>
localVars == <<lpc, lOp, lAudioExists, lCli, lPath, lExtractFn, lExtractCalled,
               lSpawned, lOutcome, lReturncode, lStdout, lStderr,
               lRet, lRaised, lLog>>
remoteVars == <<rpc, rOp, rDisk, rFiles, rResps, rExtract, rHandles, rCalls,
                rUnlinks, rRet, rRaised, rLog>>
vars == <<sanVars, localVars, remoteVars>>

-----------------------------------------------------------------------------
(* Code points used by the source.                                         *)
ESC == 27
LBRACKET == 91
RBRACKET == 93
NEWLINE == 10
SPACE == 32
DASH == 45
GT == 62

-----------------------------------------------------------------------------
(* Bounds of the exploration.                                              *)
MaxSanLen == 5
MaxTokens == 3
MaxLines == 3
MaxFiles == 2

SeqsUpTo(S, n) == UNION {[1..k -> S] : k \in 0..n}

-----------------------------------------------------------------------------
(* ansi_escape = re.compile(r'\x1B(?:[@-Z\\-_]|\[[0-?]*[ -/]*[@-~])')      *)

\* [@-Z\\-_] : the range '@'..'Z' and the range '\'..'_'
InFeClassNoRBracket(c) == (c >= 64 /\ c <= 90) \/ c = 92 \/ c = 94 \/ c = 95
InFeClass(c) == (c >= 64 /\ c <= 90) \/ (c >= 92 /\ c <= 95)
\* [0-?]
IsParam(c) == c >= 48 /\ c <= 63
\* [ -/]
IsInter(c) == c >= 32 /\ c <= 47
\* [@-~]
IsFinal(c) == c >= 64 /\ c <= 126

\* the lengths the star [0-?]* can take after position i
ParamRuns(t, i) ==
    {np \in 0..(Len(t) - i) : \A k \in 1..np : IsParam(t[i + k])}

\* the lengths the star [ -/]* can take after position j
InterRuns(t, j) ==
    {ni \in 0..(Len(t) - j) : \A k \in 1..ni : IsInter(t[j + k])}

\* \[[0-?]*[ -/]*[@-~] tried at t[i] = '[': every way the two stars can
\* split the following characters so that the final byte matches.
CsiSplits(t, i) ==
    UNION {{<<np, ni>> : ni \in {n \in InterRuns(t, i + np) :
                                   /\ i + np + n + 1 <= Len(t)
                                   /\ IsFinal(t[i + np + n + 1])}}
           : np \in ParamRuns(t, i)}

\* The greedy stars take the longest parameter run first, then the longest
\* intermediate run, and backtrack to shorter ones.
CsiGreedy(t, i) ==
    LET splits == CsiSplits(t, i)
    IN  CHOOSE pq \in splits :
            \A o \in splits :
                \/ o[1] < pq[1]
                \/ (o[1] = pq[1] /\ o[2] <= pq[2])

\* Length of the match of ansi_escape anchored at position i, 0 if none.
MatchAt(t, i) ==
    IF i >= Len(t) \/ t[i] # ESC THEN 0
    ELSE IF InFeClass(t[i + 1]) THEN 2
    ELSE IF t[i + 1] = LBRACKET /\ CsiSplits(t, i + 1) # {}
         THEN LET pq == CsiGreedy(t, i + 1) IN 2 + pq[1] + pq[2] + 1
    ELSE 0

\* Pattern.sub('', t): scan left to right, drop every match, resume after it.
RECURSIVE SubFrom(_, _)
SubFrom(t, i) ==
    IF i > Len(t) THEN <<>>
    ELSE LET m == MatchAt(t, i)
         IN  IF m > 0 THEN SubFrom(t, i + m)
             ELSE <<t[i]>> \o SubFrom(t, i + 1)

Sanitize(t) == SubFrom(t, 1)

-----------------------------------------------------------------------------
(* Python string primitives used by the segment parser.                    *)

\* characters removed by str.strip() without argument
IsWhitespace(c) ==
    \/ (c >= 9 /\ c <= 13)
    \/ (c >= 28 /\ c <= 32)
    \/ c \in {133, 160, 5760, 8232, 8233, 8239, 8287, 12288}
    \/ (c >= 8192 /\ c <= 8202)

\* s cut down to the span from its first to its last kept position
StripWith(s, keep) ==
    IF keep = {} THEN <<>>
    ELSE SubSeq(s, CHOOSE i \in keep : \A j \in keep : i <= j,
                   CHOOSE i \in keep : \A j \in keep : i >= j)

\* str.strip()
Strip(s) == StripWith(s, {i \in 1..Len(s) : ~IsWhitespace(s[i])})

\* str.strip('[')
StripLBrackets(s) == StripWith(s, {i \in 1..Len(s) : s[i] # LBRACKET})

\* the separator sep occurs in s at position i
OccursAt(s, sep, i) ==
    /\ i >= 1
    /\ i + Len(sep) - 1 <= Len(s)
    /\ \A k \in 1..Len(sep) : s[i + k - 1] = sep[k]

\* sep in s
Contains(s, sep) == \E i \in 1..Len(s) : OccursAt(s, sep, i)

\* str.startswith
StartsWith(s, pre) == OccursAt(s, pre, 1)

\* str.split(sep, maxsplit): cut at the leftmost occurrence, repeat on the
\* rest while splits remain (maxsplit = -1: no limit)
RECURSIVE Split(_, _, _)
Split(s, sep, maxsplit) ==
    LET hits == {i \in 1..Len(s) : OccursAt(s, sep, i)}
    IN  IF maxsplit = 0 \/ hits = {} THEN <<s>>
        ELSE LET i == CHOOSE h \in hits : \A o \in hits : h <= o
             IN  <<SubSeq(s, 1, i - 1)>>
                   \o Split(SubSeq(s, i + Len(sep), Len(s)), sep, maxsplit - 1)

ARROW == <<DASH, DASH, GT>>

-----------------------------------------------------------------------------
(* The segment parser of LocalASRClient.recognize_audio.                   *)

\* line.startswith('[') and '-->' in line
IsSegmentLine(line) == StartsWith(line, <<LBRACKET>>) /\ Contains(line, ARROW)

\* The body of the try block for one line.  The two tuple unpackings raise
\* ValueError unless the split gave exactly two parts.
ParseLine(line) ==
    LET parts == Split(line, <<RBRACKET>>, 1)
    IN  IF Len(parts) # 2 THEN [ok |-> FALSE]
        ELSE LET time_part == StripLBrackets(parts[1])
                 range == Split(time_part, ARROW, -1)
             IN  IF Len(range) # 2 THEN [ok |-> FALSE]
                 ELSE [ok |-> TRUE,
                       seg |-> [start |-> Strip(range[1]),
                                end |-> Strip(range[2]),
                                text |-> Strip(parts[2])]]

\* lines = stdout_text.strip().split('\n')
LinesOf(text) == Split(Strip(text), <<NEWLINE>>, -1)

\* s[:n]
Prefix(s, n) == SubSeq(s, 1, IF Len(s) < n THEN Len(s) ELSE n)

\* for line in lines: ... segments.append(...) / except: warning, continue.
\* Returns the segments and the lines a warning was logged for.
RECURSIVE ParseLoop(_, _, _, _)
ParseLoop(lines, i, segments, warned) ==
    IF i > Len(lines) THEN [segments |-> segments, warned |-> warned]
    ELSE LET line == Strip(lines[i])
         IN  IF IsSegmentLine(line)
             THEN LET r == ParseLine(line)
                  IN  IF r.ok
                      THEN ParseLoop(lines, i + 1, Append(segments, r.seg), warned)
                      ELSE ParseLoop(lines, i + 1, segments,
                                     Append(warned, Prefix(line, 100)))
             ELSE ParseLoop(lines, i + 1, segments, warned)

-----------------------------------------------------------------------------
(* bytes.decode('utf-8') and bytes.decode('utf-8', errors='ignore') for     *)
(* one- and two-byte forms; the byte strings explored contain no lead byte  *)
(* of a three- or four-byte form (0xE0..0xF4).                              *)

IsContinuation(b) == b >= 128 /\ b <= 191
IsLead2(b) == b >= 194 /\ b <= 223

\* what the decoder makes of the byte at position i
ByteRole(bytes, i) ==
    IF bytes[i] < 128 THEN "char"
    ELSE IF IsLead2(bytes[i]) /\ i < Len(bytes) /\ IsContinuation(bytes[i + 1])
         THEN "lead"
    ELSE IF IsContinuation(bytes[i]) /\ i > 1 /\ IsLead2(bytes[i - 1])
         THEN "tail"
    ELSE "invalid"

\* strict decoding raises on the first invalid byte; errors='ignore' drops it
DecodeFrom(bytes, i, ignore) ==
    LET starts == SelectSeq([k \in 1..Len(bytes) |-> k],
                            LAMBDA k : k >= i /\ ByteRole(bytes, k) \in {"char", "lead"})
        text == [n \in 1..Len(starts) |->
                    IF bytes[starts[n]] < 128 THEN bytes[starts[n]]
                    ELSE (bytes[starts[n]] - 192) * 64 + (bytes[starts[n] + 1] - 128)]
        clean == \A k \in i..Len(bytes) : ByteRole(bytes, k) # "invalid"
    IN  IF clean \/ ignore THEN [ok |-> TRUE, text |-> text]
        ELSE [ok |-> FALSE, text |-> <<>>]

\* try: b.decode('utf-8')  except UnicodeDecodeError: b.decode('utf-8', errors='ignore')
SafeDecode(bytes) ==
    LET strict == DecodeFrom(bytes, 1, FALSE)
    IN  IF strict.ok THEN [text |-> strict.text, lossy |-> FALSE]
        ELSE [text |-> DecodeFrom(bytes, 1, TRUE).text, lossy |-> TRUE]

-----------------------------------------------------------------------------
(* LocalASRClient.                                                         *)

\* Python's None, and the dict returned on success
NoneValue == [isNone |-> TRUE]

\* os.path.basename of a path given as its components
Basename(path) == IF path = <<>> THEN "" ELSE path[Len(path)]

\* the dict built at the end of the success branch
SuccessResult(path, segments, stdout_text) ==
    [isNone |-> FALSE,
     status |-> "success",
     filename |-> Basename(path),
     segments |-> segments,
     full_text |-> stdout_text,
     processing_time |-> NoneValue,
     model |-> "whisper.cpp-ggml-base"]

\* the second parse pass starts from segments = []
SecondPassKeepsFirst(lines, first) == ParseLoop(lines, 1, first, <<>>)
SecondPass(lines, first) == ParseLoop(lines, 1, <<>>, <<>>)

\* the else branch of `if result.returncode == 0`: return None
FailedExitPartial(segments, stdout_text) ==
    [isNone |-> FALSE, status |-> "failed",
     segments |-> segments, full_text |-> stdout_text]
FailedExitReturn(segments, stdout_text) == NoneValue

\* stderr_text[:1000] in the error log of a failed run
ErrorDetail500(stderr_text) == Prefix(stderr_text, 500)
ErrorDetail(stderr_text) == Prefix(stderr_text, 1000)

Warnings(lines) == [k \in 1..Len(lines) |-> <<"warning", "parse_skipped", lines[k]>>]

\* Everything recognize_audio does once subprocess.run has returned.
AfterRun(path, returncode, stdout, stderr) ==
    LET out == SafeDecode(stdout)
        err == SafeDecode(stderr)
        stdout_text == Sanitize(out.text)
        lines == LinesOf(stdout_text)
        first == ParseLoop(lines, 1, <<>>, <<>>)
        log1 == << <<"info", "returncode", returncode>>,
                   <<"info", "stdout_bytes", Len(stdout)>>,
                   <<"info", "stderr_bytes", Len(stderr)>> >>
                \o (IF out.lossy THEN << <<"warning", "stdout_not_utf8", 0>> >> ELSE <<>>)
                \o Warnings(first.warned)
                \o (IF err.text # <<>>
                    THEN << <<"info", "stderr", Prefix(err.text, 500)>> >> ELSE <<>>)
    IN  IF returncode = 0
        THEN LET second == SecondPass(lines, first.segments)
             IN  [ret |-> SuccessResult(path, second.segments, stdout_text),
                  log |-> log1
                          \o << <<"info", "success_chars", Len(stdout_text)>> >>
                          \o Warnings(second.warned)
                          \o << <<"info", "segments", Len(second.segments)>> >>]
        ELSE [ret |-> FailedExitReturn(first.segments, stdout_text),
              log |-> log1
                      \o << <<"error", "failed_returncode", returncode>>,
                            <<"error", "stderr_detail", ErrorDetail(err.text)>> >>]

\* what each except clause of recognize_audio gives back
OnTimeout == [ret |-> NoneValue, raised |-> FALSE,
              log |-> << <<"error", "timeout", 120>> >>]
OnFileNotFoundError == [ret |-> NoneValue, raised |-> FALSE,
                        log |-> << <<"error", "not_found", 0>> >>]
OnException == [ret |-> NoneValue, raised |-> FALSE,
                log |-> << <<"error", "unknown", 0>> >>]

LocalIdle ==
    /\ lpc = "idle"
    /\ lOp = "none"
    /\ lAudioExists = TRUE
    /\ lCli = "ok"
    /\ lPath = <<>>
    /\ lExtractFn = "none"
    /\ lExtractCalled = FALSE
    /\ lSpawned = FALSE
    /\ lOutcome = "none"
    /\ lReturncode = 0
    /\ lStdout = <<>>
    /\ lStderr = <<>>
    /\ lRet = NoneValue
    /\ lRaised = FALSE
    /\ lLog = <<>>

\* the audio paths the remote adapter is called with
Paths == {<<"a.wav">>, <<"tmp", "b.wav">>}

\* the remote adapter before any call
RemoteIdle ==
    /\ rpc = "idle"
    /\ rOp = "none"
    /\ rDisk = [p \in Paths |-> "file"]
    /\ rFiles = <<>>
    /\ rResps = <<>>
    /\ rExtract = [kind |-> "none", path |-> <<>>]
    /\ rHandles = <<>>
    /\ rCalls = <<>>
    /\ rUnlinks = <<>>
    /\ rRet = NoneValue
    /\ rRaised = FALSE
    /\ rLog = <<>>

-----------------------------------------------------------------------------
(* What the external process can write.                                    *)

RECURSIVE Flatten(_)
Flatten(ss) == IF ss = <<>> THEN <<>> ELSE Head(ss) \o Flatten(Tail(ss))

RECURSIVE JoinLines(_)
JoinLines(ls) ==
    IF ls = <<>> THEN <<>>
    ELSE IF Len(ls) = 1 THEN ls[1]
    ELSE ls[1] \o <<NEWLINE>> \o JoinLines(Tail(ls))

tLB == <<LBRACKET>>
tRB == <<RBRACKET>>
tSP == <<SPACE>>
tNL == <<NEWLINE>>
tA == <<97>>
tB == <<98>>
tC == <<99>>
tBold == <<ESC, LBRACKET, 49, 109>>
tReset == <<ESC, LBRACKET, 48, 109>>

Tokens == {tLB, tRB, ARROW, tA, tSP, tNL}

\* every text of at most MaxTokens tokens
TokenTexts == {Flatten(ts) : ts \in SeqsUpTo(Tokens, MaxTokens)}

\* lines of the shapes whisper-cli output and its corruptions take
LineSamples ==
    { Flatten(<<tLB, tA, ARROW, tB, tRB, tSP, tSP, tC>>),
      Flatten(<<tSP, tLB, tSP, tB, tSP, ARROW, tSP, tA, tSP, tRB, tC, tSP, tA, <<13>>>>),
      Flatten(<<tLB, tBold, tC, ARROW, tA, tRB, tBold, tB, tReset>>),
      Flatten(<<tLB, tLB, tA, ARROW, tB, tLB, tRB, tC, tRB>>),
      Flatten(<<tLB, tA, tRB, ARROW, tB>>),
      Flatten(<<tLB, tA, ARROW, tB, ARROW, tC, tRB, tA>>),
      Flatten(<<tLB, <<195, 169>>, ARROW, <<255>>, tB, tRB, <<195>>, tC>>),
      tA }

SampleTexts == {JoinLines(ls) : ls \in SeqsUpTo(LineSamples, MaxLines)}

StdoutTexts == TokenTexts \cup SampleTexts

SmallStdout ==
    { <<>>,
      Flatten(<<tLB, tA, ARROW, tB, tRB, tC, tNL>>),
      Flatten(<<tLB, tA, ARROW, tB>>) }

\* stderr: empty, short, not UTF-8, and around the 500 and 1000 character cuts
StderrLengths == {0, 3, 500, 501, 1000, 1001}
StderrTexts ==
    {[i \in 1..n |-> 97 + (i % 7)] : n \in StderrLengths} \cup {<<101, 255, 114>>}

ReturnCodes == {0, 1, 2}

Completions ==
    [returncode : {0}, stdout : StdoutTexts, stderr : {<<>>}]
    \cup [returncode : ReturnCodes, stdout : SmallStdout, stderr : StderrTexts]

AudioPaths == {<<"a.wav">>, <<"tmp", "b.wav">>}

-----------------------------------------------------------------------------
(* Operations of LocalASRClient.                                           *)

Init ==
    /\ lpc = "idle"
    /\ lOp = "none"
    /\ lAudioExists \in BOOLEAN
    /\ lCli \in {"ok", "missing", "noexec"}
    /\ lPath = <<>>
    /\ lExtractFn = "none"
    /\ lExtractCalled = FALSE
    /\ lSpawned = FALSE
    /\ lOutcome = "none"
    /\ lReturncode = 0
    /\ lStdout = <<>>
    /\ lStderr = <<>>
    /\ lRet = NoneValue
    /\ lRaised = FALSE
    /\ lLog = <<>>
    /\ sanPc = "off"
    /\ sanIn = <<>>
    /\ sanOut = <<>>
    /\ sanOut2 = <<>>
    /\ RemoteIdle

Return(r) ==
    /\ lpc' = "returned"
    /\ lRet' = r.ret
    /\ lRaised' = r.raised
    /\ lLog' = lLog \o r.log

\* recognize_audio up to the point where subprocess.run either fails to
\* start the executable or has the process running.  The command is built
\* and run whatever the state of audio_path on disk.  (The preparation of
\* DYLD_LIBRARY_PATH has no effect on the control flow and is left out.)
LocalRecognizeAudio(path) ==
    /\ lpc = "idle"
    /\ lOp' = "recognize_audio"
    /\ lPath' = path
    /\ CASE lCli = "ok" ->
              /\ lSpawned' = TRUE
              /\ lpc' = "running"
              /\ lLog' = Append(lLog, <<"info", "command", path>>)
              /\ UNCHANGED <<lOutcome, lRet, lRaised>>
         [] lCli = "missing" ->
              /\ lOutcome' = "notfound"
              /\ Return([OnFileNotFoundError EXCEPT
                           !.log = << <<"info", "command", path>> >> \o @])
              /\ UNCHANGED lSpawned
         [] OTHER ->
              /\ lOutcome' = "fault"
              /\ Return([OnException EXCEPT
                           !.log = << <<"info", "command", path>> >> \o @])
              /\ UNCHANGED lSpawned
    /\ UNCHANGED <<lAudioExists, lCli, lExtractFn, lExtractCalled,
                   lReturncode, lStdout, lStderr, sanVars, remoteVars>>

\* the process exits within the timeout; the rest of the try block runs
ProcCompletes(c) ==
    /\ lpc = "running"
    /\ lOutcome' = "completed"
    /\ lReturncode' = c.returncode
    /\ lStdout' = c.stdout
    /\ lStderr' = c.stderr
    /\ LET r == AfterRun(lPath, c.returncode, c.stdout, c.stderr)
       IN  Return([ret |-> r.ret, raised |-> FALSE, log |-> r.log])
    /\ UNCHANGED <<lOp, lAudioExists, lCli, lPath, lExtractFn, lExtractCalled,
                   lSpawned, sanVars, remoteVars>>

\* subprocess.TimeoutExpired after 120 seconds
ProcTimeout ==
    /\ lpc = "running"
    /\ lOutcome' = "timeout"
    /\ Return(OnTimeout)
    /\ UNCHANGED <<lOp, lAudioExists, lCli, lPath, lExtractFn, lExtractCalled,
                   lSpawned, lReturncode, lStdout, lStderr, sanVars, remoteVars>>

\* any other exception raised inside the try block
ProcFault ==
    /\ lpc = "running"
    /\ lOutcome' = "fault"
    /\ Return(OnException)
    /\ UNCHANGED <<lOp, lAudioExists, lCli, lPath, lExtractFn, lExtractCalled,
                   lSpawned, lReturncode, lStdout, lStderr, sanVars, remoteVars>>

\* LocalASRClient.process_video: the body is `pass`
LocalProcessVideo(fn) ==
    /\ lpc = "idle"
    /\ lOp' = "process_video"
    /\ lExtractFn' = fn
    /\ lpc' = "returned"
    /\ lRet' = NoneValue
    /\ UNCHANGED <<lAudioExists, lCli, lPath, lExtractCalled, lSpawned, lOutcome,
                   lReturncode, lStdout, lStderr, lRaised, lLog, sanVars,
                   remoteVars>>

Next ==
    \/ \E path \in AudioPaths : LocalRecognizeAudio(path)
    \/ \E c \in Completions : ProcCompletes(c)
    \/ ProcTimeout
    \/ ProcFault
    \/ \E fn \in {"none", "succeeds", "fails"} : LocalProcessVideo(fn)

Spec == Init /\ [][Next]_vars

-----------------------------------------------------------------------------
(* Properties of LocalASRClient, checked under Spec.                       *)

RecognizeReturned == lOp = "recognize_audio" /\ lpc = "returned"
CleanExit == lOutcome = "completed" /\ lReturncode = 0
FailedExit == lOutcome = "completed" /\ lReturncode # 0

\* C1: a recognize_audio call on an audio path missing from disk never
\* starts the external process.
C1_MissingAudioNeverSpawns ==
    (lOp = "recognize_audio" /\ ~lAudioExists) => ~lSpawned

\* C2: recognize_audio returns a value carrying segments and full_text
\* exactly when the process exited with code 0 within the timeout; in every
\* other outcome the value returned carries neither, and no exception
\* leaves the call.
C2_ResultIffCleanExit ==
    RecognizeReturned =>
        /\ ~lRaised
        /\ CleanExit <=> {"segments", "full_text"} \subseteq DOMAIN lRet
        /\ ~CleanExit => DOMAIN lRet \cap {"segments", "full_text"} = {}

C2_Witness ==
    /\ RecognizeReturned
    /\ FailedExit
    /\ lStdout = Flatten(<<tLB, tA, ARROW, tB, tRB, tC, tNL>>)
    /\ lRet = NoneValue

\* The lines of a text: the stretches between consecutive newlines.
C3_Lines(text) ==
    LET nl == SelectSeq([k \in 1..Len(text) |-> k], LAMBDA k : text[k] = NEWLINE)
        from(n) == IF n = 1 THEN 1 ELSE nl[n - 1] + 1
        upto(n) == IF n = Len(nl) + 1 THEN Len(text) ELSE nl[n] - 1
    IN  [n \in 1..(Len(nl) + 1) |-> Strip(SubSeq(text, from(n), upto(n)))]

C3_Matches(line) ==
    /\ line # <<>>
    /\ line[1] = LBRACKET
    /\ \E i \in 1..(Len(line) - 2) : SubSeq(line, i, i + 2) = ARROW

C3_FirstRB(line) ==
    CHOOSE r \in 1..Len(line) :
        line[r] = RBRACKET /\ \A j \in 1..(r - 1) : line[j] # RBRACKET

C3_ArrowsBefore(line, r) ==
    {i \in 1..(r - 3) : SubSeq(line, i, i + 2) = ARROW}

\* a first ']' exists and exactly one '-->' lies before it
C3_Structural(line) ==
    /\ \E r \in 1..Len(line) : line[r] = RBRACKET
    /\ Cardinality(C3_ArrowsBefore(line, C3_FirstRB(line))) = 1

C3_Fields(line) ==
    LET r == C3_FirstRB(line)
        a == CHOOSE i \in C3_ArrowsBefore(line, r) : TRUE
        inner == {j \in 1..(r - 1) : line[j] # LBRACKET}
        lo == CHOOSE j \in inner : \A o \in inner : j <= o
        hi == CHOOSE j \in inner : \A o \in inner : j >= o
    IN  [start |-> Strip(SubSeq(line, lo, a - 1)),
         end |-> Strip(SubSeq(line, a + 3, hi)),
         text |-> Strip(SubSeq(line, r + 1, Len(line)))]

C3_Expected(text) ==
    LET lines == C3_Lines(text)
        good == SelectSeq([k \in 1..Len(lines) |-> k],
                          LAMBDA k : C3_Matches(lines[k]) /\ C3_Structural(lines[k]))
    IN  [m \in 1..Len(good) |-> C3_Fields(lines[good[m]])]

\* C3: after a run with exit code 0 the segments returned are, in order of
\* appearance, one segment per trimmed line of the sanitized text that
\* starts with '[', contains '-->' and parses; other lines give nothing and
\* a matching line that does not parse is skipped without stopping the scan.
C3_SegmentsInOrder ==
    (RecognizeReturned /\ CleanExit) =>
        lRet.segments = C3_Expected(lRet.full_text)

C3_Witness ==
    /\ RecognizeReturned
    /\ CleanExit
    /\ Len(lRet.segments) = 2
    /\ lRet.segments[1] # lRet.segments[2]
    /\ LET lines == C3_Lines(lRet.full_text)
       IN  /\ Len(lines) = 3
           /\ C3_Matches(lines[2])
           /\ ~C3_Structural(lines[2])

\* C8: LocalASRClient.process_video given an extraction function calls it.
C8_ProcessVideoExtracts ==
    (lOp = "process_video" /\ lpc = "returned" /\ lExtractFn # "none")
        => lExtractCalled

-----------------------------------------------------------------------------
(* ASRClient.                                                              *)

\* a path is absent, a readable file, or present but refused by open()
\* (a directory, or a file without read permission)
DiskStates == {"missing", "file", "unopenable"}

\* what requests.post and the response can do:
\*   ok           200, a JSON object with a 'filename' key
\*   no_filename  200, JSON without a 'filename' key
\*   bad_json     200, a body response.json() cannot parse
\*   http_error   a status other than 200
\*   conn_error   requests.exceptions.ConnectionError, the unreferenced file
\*                object not yet finalized when the call returns
\*   conn_error_finalized  the same, the runtime having finalized it
\*   other_error  any other exception raised by requests.post
Responses == {"ok", "no_filename", "bad_json", "http_error",
              "conn_error", "conn_error_finalized", "other_error"}

\* the JSON object the service answers with
ServiceResult(path) ==
    [isNone |-> FALSE, filename |-> Basename(path), processing_time |-> "1.0s"]

\* the handler of requests.exceptions.ConnectionError: log and return None;
\* the file object is left to the runtime
OnConnectionError(finalized) ==
    [ret |-> NoneValue, handle |-> IF finalized THEN "closed" ELSE "open",
     log |-> << <<"error", "cannot_connect", 0>> >>]

\* ASRClient.recognize_audio on a disk where the path has the given state,
\* the service behaving as resp.  handle is the state of the file object at
\* the return: "none" when open() was not reached or raised.
RemoteRecognize(state, path, resp) ==
    IF state = "missing"
    THEN [ret |-> NoneValue, raised |-> FALSE, handle |-> "none", posted |-> FALSE,
          log |-> << <<"error", "no_such_file", path>> >>]
    ELSE IF state = "unopenable"
    THEN [ret |-> NoneValue, raised |-> TRUE, handle |-> "none", posted |-> FALSE,
          log |-> <<>>]
    ELSE LET start == << <<"info", "recognizing", path>> >>
             done(ret, handle, log) ==
                 [ret |-> ret, raised |-> FALSE, handle |-> handle, posted |-> TRUE,
                  log |-> start \o log]
         IN  CASE resp = "ok" ->
                    done(ServiceResult(path), "closed",
                         << <<"info", "success", 0>>,
                            <<"info", "filename", Basename(path)>>,
                            <<"info", "processing_time", "1.0s">> >>)
               [] resp = "no_filename" ->
                    done(NoneValue, "closed",
                         << <<"info", "success", 0>>,
                            <<"error", "exception", resp>> >>)
               [] resp \in {"bad_json", "other_error"} ->
                    done(NoneValue, "closed", << <<"error", "exception", resp>> >>)
               [] resp = "http_error" ->
                    done(NoneValue, "closed",
                         << <<"error", "status", 500>>, <<"error", "body", 0>> >>)
               [] OTHER ->
                    LET h == OnConnectionError(resp = "conn_error_finalized")
                    IN  done(h.ret, h.handle, h.log)

\* what the caller-supplied extract_audio_func does
ExtractOutcomes ==
    {[kind |-> k, path |-> <<>>] : k \in {"no_function", "raises", "returns_none"}}
    \cup {[kind |-> "path", path |-> p] : p \in Paths}

\* the file objects a recognize_audio call leaves behind
HandlesOf(path, r) ==
    IF r.handle = "none" THEN <<>> ELSE << [path |-> path, state |-> r.handle] >>

\* the loop of recognize_multiple_files from the i-th file on; an exception
\* raised by recognize_audio ends the loop and the call
RECURSIVE Batch(_, _, _, _, _)
Batch(disk, files, resps, i, acc) ==
    IF i > Len(files) THEN acc
    ELSE LET r == RemoteRecognize(disk[files[i]], files[i], resps[i])
             next == [results |-> IF r.raised \/ r.ret = NoneValue THEN acc.results
                                  ELSE Append(acc.results,
                                              [file |-> files[i], result |-> r.ret]),
                      calls |-> Append(acc.calls, files[i]),
                      handles |-> acc.handles \o HandlesOf(files[i], r),
                      log |-> acc.log \o << <<"info", "processing", files[i]>> >> \o r.log,
                      raised |-> r.raised]
         IN  IF r.raised THEN next ELSE Batch(disk, files, resps, i + 1, next)

-----------------------------------------------------------------------------
(* Operations of ASRClient.                                                *)

RemoteInit ==
    /\ rpc = "idle"
    /\ rOp = "none"
    /\ rDisk \in [Paths -> DiskStates]
    /\ rFiles = <<>>
    /\ rResps = <<>>
    /\ rExtract = [kind |-> "none", path |-> <<>>]
    /\ rHandles = <<>>
    /\ rCalls = <<>>
    /\ rUnlinks = <<>>
    /\ rRet = NoneValue
    /\ rRaised = FALSE
    /\ rLog = <<>>
    /\ LocalIdle
    /\ sanPc = "off"
    /\ sanIn = <<>>
    /\ sanOut = <<>>
    /\ sanOut2 = <<>>

\* ASRClient.recognize_audio(path)
RemoteRecognizeAudio(path, resp) ==
    /\ rpc = "idle"
    /\ rpc' = "returned"
    /\ rOp' = "recognize_audio"
    /\ rFiles' = <<path>>
    /\ rResps' = <<resp>>
    /\ LET r == RemoteRecognize(rDisk[path], path, resp)
       IN  /\ rHandles' = HandlesOf(path, r)
           /\ rRet' = r.ret
           /\ rRaised' = r.raised
           /\ rLog' = rLog \o r.log
    /\ rCalls' = <<path>>
    /\ UNCHANGED <<rDisk, rExtract, rUnlinks, localVars, sanVars>>

\* ASRClient.process_video(video_path, extract_audio_func)
RemoteProcessVideo(extract, resp, unlinkOk) ==
    /\ rpc = "idle"
    /\ rpc' = "returned"
    /\ rOp' = "process_video"
    /\ rExtract' = extract
    /\ rResps' = <<resp>>
    /\ rRaised' = FALSE
    /\ IF extract.kind # "path"
       THEN /\ rRet' = NoneValue
            /\ rLog' = Append(rLog, <<"error", "extract", extract.kind>>)
            /\ UNCHANGED <<rDisk, rFiles, rHandles, rCalls, rUnlinks>>
       ELSE LET p == extract.path
                r == RemoteRecognize(rDisk[p], p, resp)
            IN  /\ rFiles' = <<p>>
                /\ rCalls' = <<p>>
                /\ rHandles' = HandlesOf(p, r)
                /\ IF r.raised
                   THEN \* except Exception: log, return None
                        /\ rRet' = NoneValue
                        /\ rLog' = rLog \o r.log \o << <<"error", "process_video", 0>> >>
                        /\ UNCHANGED <<rDisk, rUnlinks>>
                   ELSE /\ rRet' = r.ret
                        /\ IF rDisk[p] # "missing"
                           THEN /\ rUnlinks' = Append(rUnlinks, p)
                                /\ rDisk' = IF unlinkOk
                                            THEN [rDisk EXCEPT ![p] = "missing"]
                                            ELSE rDisk
                                /\ rLog' = rLog \o r.log \o
                                       (IF unlinkOk THEN <<>>
                                        ELSE << <<"warning", "cleanup_failed", p>> >>)
                           ELSE /\ rLog' = rLog \o r.log
                                /\ UNCHANGED <<rDisk, rUnlinks>>
    /\ UNCHANGED <<localVars, sanVars>>

\* ASRClient.recognize_multiple_files(audio_files)
RemoteRecognizeMultiple(files, resps) ==
    /\ rpc = "idle"
    /\ rpc' = "returned"
    /\ rOp' = "recognize_multiple_files"
    /\ rFiles' = files
    /\ rResps' = resps
    /\ LET b == Batch(rDisk, files, resps, 1,
                      [results |-> <<>>, calls |-> <<>>, handles |-> <<>>,
                       log |-> <<>>, raised |-> FALSE])
       IN  /\ rRet' = IF b.raised THEN NoneValue ELSE b.results
           /\ rRaised' = b.raised
           /\ rCalls' = b.calls
           /\ rHandles' = b.handles
           /\ rLog' = rLog \o b.log
    /\ UNCHANGED <<rDisk, rExtract, rUnlinks, localVars, sanVars>>

RemoteNext ==
    \/ \E path \in Paths, resp \in Responses : RemoteRecognizeAudio(path, resp)
    \/ \E extract \in ExtractOutcomes, resp \in Responses, unlinkOk \in BOOLEAN :
          RemoteProcessVideo(extract, resp, unlinkOk)
    \/ \E files \in SeqsUpTo(Paths, MaxFiles) :
          \E resps \in [1..Len(files) -> Responses] :
              RemoteRecognizeMultiple(files, resps)

SpecRemote == RemoteInit /\ [][RemoteNext]_vars

-----------------------------------------------------------------------------
(* Properties of ASRClient, checked under SpecRemote.                      *)

\* C6: when recognize_audio returns, every file it opened is closed.
C6_HandleClosedOnReturn ==
    (rOp = "recognize_audio" /\ rpc = "returned") =>
        \A i \in 1..Len(rHandles) : rHandles[i].state = "closed"

\* the files of the batch whose recognition gives a result
C7_Succeeds(i) == rDisk[rFiles[i]] = "file" /\ rResps[i] = "ok"

\* C7: recognize_multiple_files goes through every file in order, raises
\* nothing, and returns one entry per file whose recognition succeeded, in
\* input order.
C7_BatchIsolatesFailures ==
    (rOp = "recognize_multiple_files" /\ rpc = "returned") =>
        /\ ~rRaised
        /\ rCalls = rFiles
        /\ LET good == SelectSeq([i \in 1..Len(rFiles) |-> i], C7_Succeeds)
           IN  /\ Len(rRet) = Len(good)
               /\ \A k \in 1..Len(good) :
                     /\ rRet[k].file = rFiles[good[k]]
                     /\ ~rRet[k].result.isNone

\* C9: when process_video returns and the extraction function gave the path
\* of an existing file, deleting that file was attempted.
C9_TempFileAlwaysUnlinked ==
    (/\ rOp = "process_video"
     /\ rpc = "returned"
     /\ rExtract.kind = "path"
     /\ (rDisk[rExtract.path] # "missing" \/ rUnlinks # <<>>))
        => rUnlinks = <<rExtract.path>>

-----------------------------------------------------------------------------
(* Specification of the sanitizer alone: the input is any short text over  *)
(* an alphabet with one character of every class of the pattern.           *)
SanAlphabet == {ESC, LBRACKET, RBRACKET, 65, 109, 48, SPACE}

SanInit ==
    /\ sanPc = "raw"
    /\ sanIn \in SeqsUpTo(SanAlphabet, MaxSanLen)
    /\ sanOut = <<>>
    /\ sanOut2 = <<>>
    /\ LocalIdle
    /\ RemoteIdle

\* stdout_text = ansi_escape.sub('', stdout_text)
SanitizeStep ==
    /\ sanPc = "raw"
    /\ sanOut' = Sanitize(sanIn)
    /\ sanPc' = "clean"
    /\ UNCHANGED <<sanIn, sanOut2, localVars, remoteVars>>

\* the same substitution applied to text that was already sanitized
SanitizeAgain ==
    /\ sanPc = "clean"
    /\ sanOut2' = Sanitize(sanOut)
    /\ sanPc' = "reclean"
    /\ UNCHANGED <<sanIn, sanOut, localVars, remoteVars>>

SanNext == SanitizeStep \/ SanitizeAgain

SpecSan == SanInit /\ [][SanNext]_vars

-----------------------------------------------------------------------------
(* Properties of the sanitizer, checked under SpecSan.                     *)

\* C4: sanitizing sanitized text returns it unchanged.
C4_Idempotent == sanPc = "reclean" => sanOut2 = sanOut

\* ESC followed by one character of fe
FormFe(s, fe) == Len(s) = 2 /\ s[1] = ESC /\ s[2] \in fe

\* ESC '[' parameter bytes, intermediate bytes, one final byte
FormCsi(s) ==
    /\ Len(s) >= 3
    /\ s[1] = ESC
    /\ s[2] = LBRACKET
    /\ \E np \in 0..(Len(s) - 3) :
          /\ \A k \in 3..(2 + np) : s[k] \in 48..63
          /\ \A k \in (3 + np)..(Len(s) - 1) : s[k] \in 32..47
    /\ s[Len(s)] \in 64..126

\* t from position i on with every substring of one of the two forms
\* removed, left to right, and every other character kept
RECURSIVE RemoveForms(_, _, _)
RemoveForms(t, i, fe) ==
    IF i > Len(t) THEN <<>>
    ELSE LET ends == {j \in i..Len(t) :
                        FormFe(SubSeq(t, i, j), fe) \/ FormCsi(SubSeq(t, i, j))}
         IN  IF ends = {} THEN <<t[i]>> \o RemoveForms(t, i + 1, fe)
             ELSE RemoveForms(t, (CHOOSE j \in ends : TRUE) + 1, fe)

\* C5 as stated: the single characters after ESC are '@'..'Z', '\', '^', '_'.
C5_RemovesStatedForms ==
    sanPc = "clean" => sanOut = RemoveForms(sanIn, 1, (64..90) \cup {92, 94, 95})

\* C5 amended: the sanitizer removes exactly the substrings ESC + one
\* character of '@'..'Z' or '\'..'_' (so ESC ']' too), or ESC '[' + parameter
\* bytes + intermediate bytes + one final byte, left to right; every other
\* character is kept in order.
C5_RemovesCodeForms ==
    sanPc = "clean" => sanOut = RemoveForms(sanIn, 1, (64..90) \cup (92..95))

C5_Witness ==
    /\ sanPc = "clean"
    /\ \E i \in 1..(Len(sanIn) - 1) : sanIn[i] = ESC /\ sanIn[i + 1] = RBRACKET
    /\ \E i \in 1..(Len(sanIn) - 1) : sanIn[i] = ESC /\ sanIn[i + 1] = SPACE
    /\ Len(sanOut) = Len(sanIn) - 2

====
